---- MODULE Spec2Model ----
(***************************************************************************)
(* The two Soroban contracts of stellar/sep45-reference:                   *)
(*   contracts/account  - custom account: signer registry, __check_auth,   *)
(*                        admin-gated upgrade                              *)
(*   contracts/web_auth - web_auth_verify over a map of declared           *)
(*                        principals, admin-gated upgrade                  *)
(*                                                                         *)
(* The host runs one invocation at a time, to completion.  An invocation   *)
(* is three steps here: the host pushes a call (Invoke), the contract      *)
(* function runs as ONE step (the handler actions), the host hands the     *)
(* outcome back and pops the call (Return).  A trap (panic, host error)    *)
(* is the outcome "fault"; the host rolls back, so a faulting handler      *)
(* leaves storage and code as they were.                                   *)
(***************************************************************************)
EXTENDS Integers, Sequences, FiniteSets, TLC

\* ---------------------------------------------------------------- bounds
\* longest signature vector handed to __check_auth
MaxBundle == 2

\* ----------------------------------------------------------- value sets
\* 32-byte ed25519 public keys
Keys == {"k0", "k1"}
\* 32-byte signature payloads
Digests == {"d0", "d1"}
\* addresses
Principals == {"A", "B"}
\* strings found as values of the args map: the strkeys of the addresses
\* and one string that is no strkey
Strings == Principals \cup {"not-a-strkey"}
\* wasm hashes; InitialWasm is the code the contract is deployed with
InitialWasm == "w0"
WasmHashes == {"w0", "w1"}
\* Vec<Context> values
Contexts == {<<>>, <<"ctx1">>}
\* instance storage has no DataKey::Admin entry
NoAdmin == "none"
\* the Symbols web_auth_verify reads
ArgKeys == {"account", "web_auth_domain_account", "client_domain_account"}

\* ------------------------------------------------------------ signatures
\* the 64-byte string that is the ed25519 signature of msg under key k
Sign(k, msg) == [by |-> k, of |-> msg]
\* a 64-byte string that is nobody's signature of anything (e.g. a valid
\* signature with one bit flipped)
Forged == [by |-> "nobody", of |-> "nothing"]
Sigs == {Sign(k, d) : k \in Keys, d \in Digests} \cup {Forged}

\* env.crypto().ed25519_verify(pk, msg, sig): TRUE when the call returns,
\* FALSE when it traps
ed25519_verify_mut_nokey(public_key, msg, sig) == sig # Forged /\ sig.of = msg
ed25519_verify(public_key, msg, sig) == sig = Sign(public_key, msg)

\* struct Signature { public_key, signature }
Signature == [public_key : Keys, signature : Sigs]

RECURSIVE SeqsUpTo(_, _)
SeqsUpTo(S, n) ==
    IF n = 0 THEN {<<>>}
    ELSE LET shorter == SeqsUpTo(S, n - 1)
         IN  shorter \cup {Append(s, x) : s \in {t \in shorter : Len(t) = n - 1}, x \in S}

\* Vec<Signature> values
Bundles == SeqsUpTo(Signature, MaxBundle)

\* Map<Symbol, String> values over the three Symbols the contract reads
ArgMaps == UNION {[D -> Strings] : D \in SUBSET ArgKeys}

\* ------------------------------------------------------------------ state
VARIABLES
    acc_admin,    \* account instance storage: DataKey::Admin, or NoAdmin
    acc_signers,  \* account instance storage: the k with a DataKey::Signer(k) entry
    acc_wasm,     \* hash of the account contract's executable
    wa_admin,     \* web_auth instance storage: DataKey::Admin, or NoAdmin
    wa_wasm,      \* hash of the web_auth contract's executable
    pc,           \* "idle" | "invoked" | "done"
    call,         \* the invocation: function name and arguments
    ret           \* its outcome

vars == <<acc_admin, acc_signers, acc_wasm, wa_admin, wa_wasm, pc, call, ret>>
acc_state == <<acc_admin, acc_signers, acc_wasm>>
wa_state == <<wa_admin, wa_wasm>>

NoCall == [op |-> "none"]
NoRet == [result |-> "pending"]

\* ------------------------------------------------- Account::__check_auth
CheckAuthRet(result, looked, verified) ==
    [result |-> result, looked |-> looked, verified |-> verified]

\* looked: the keys the registry was queried for, in order
\* verified: the (key, payload, signature) triples handed to ed25519_verify
check_auth_mut_lookup_first(signers, signature_payload, signatures, auth_context) ==
    IF Len(signatures) = 0 THEN CheckAuthRet("fault", <<>>, <<>>)
    ELSE
    LET signature == signatures[1]
        looked == <<signature.public_key>>
        verified == <<<<signature.public_key, signature_payload, signature.signature>>>>
    IN  IF signature.public_key \notin signers
        THEN CheckAuthRet("UnknownSigner", looked, <<>>)
        ELSE IF Len(signatures) > 1
        THEN CheckAuthRet("TooManySignatures", looked, <<>>)
        ELSE IF ~ed25519_verify(signature.public_key, signature_payload, signature.signature)
        THEN CheckAuthRet("fault", looked, verified)
        ELSE CheckAuthRet("Ok", looked, verified)

check_auth_mut_verify_first(signers, signature_payload, signatures, auth_context) ==
    IF Len(signatures) > 1 THEN CheckAuthRet("TooManySignatures", <<>>, <<>>)
    ELSE IF Len(signatures) = 0 THEN CheckAuthRet("fault", <<>>, <<>>)
    ELSE
    LET signature == signatures[1]
        looked == <<signature.public_key>>
        verified == <<<<signature.public_key, signature_payload, signature.signature>>>>
    IN  IF ~ed25519_verify(signature.public_key, signature_payload, signature.signature)
        THEN CheckAuthRet("fault", <<>>, verified)
        ELSE IF signature.public_key \notin signers
        THEN CheckAuthRet("UnknownSigner", looked, verified)
        ELSE CheckAuthRet("Ok", looked, verified)

check_auth(signers, signature_payload, signatures, auth_context) ==
    \* if signatures.len() > 1 { return Err(TooManySignatures) }
    IF Len(signatures) > 1 THEN CheckAuthRet("TooManySignatures", <<>>, <<>>)
    \* signatures.get_unchecked(0) traps on an empty vector
    ELSE IF Len(signatures) = 0 THEN CheckAuthRet("fault", <<>>, <<>>)
    ELSE
    LET signature == signatures[1]
        looked == <<signature.public_key>>
        verified == <<<<signature.public_key, signature_payload, signature.signature>>>>
    IN  \* storage.get(Signer(public_key)).is_none()
        IF signature.public_key \notin signers
        THEN CheckAuthRet("UnknownSigner", looked, <<>>)
        \* ed25519_verify traps on a signature that does not verify
        ELSE IF ~ed25519_verify(signature.public_key, signature_payload, signature.signature)
        THEN CheckAuthRet("fault", looked, verified)
        ELSE CheckAuthRet("Ok", looked, verified)

\* ------------------------------------------------------ Upgradable::upgrade
\* the outcome of upgrade for the stored admin and the set auths of
\* addresses whose authorization the host holds for this invocation
upgrade_mut_no_auth(admin, auths) ==
    IF admin = NoAdmin THEN "fault" ELSE "Ok"
upgrade(admin, auths) ==
    \* storage.get(&DataKey::Admin).unwrap()
    IF admin = NoAdmin THEN "fault"
    \* admin.require_auth()
    ELSE IF admin \notin auths THEN "fault"
    \* update_current_contract_wasm(new_wasm_hash)
    ELSE "Ok"

\* --------------------------------------------- WebAuthContract::web_auth_verify
\* Address::from_string traps on a string that is no strkey
IsAddress(s) == s \in Principals

VerifyRet(result, looked, demanded) ==
    [result |-> result, looked |-> looked, demanded |-> demanded]

\* looked: the Symbols looked up in args, in order
\* demanded: the addresses require_auth was called on, in order
web_auth_verify_mut_domain_first(args, auths) ==
    IF "web_auth_domain_account" \notin DOMAIN args
    THEN VerifyRet("MissingArgument", <<"web_auth_domain_account">>, <<>>)
    ELSE IF ~IsAddress(args["web_auth_domain_account"])
    THEN VerifyRet("fault", <<"web_auth_domain_account">>, <<>>)
    ELSE IF args["web_auth_domain_account"] \notin auths
    THEN VerifyRet("fault", <<"web_auth_domain_account">>, <<args["web_auth_domain_account"]>>)
    ELSE
    LET looked2 == <<"web_auth_domain_account", "account">>
        demanded1 == <<args["web_auth_domain_account"]>>
    IN  IF "account" \notin DOMAIN args
        THEN VerifyRet("MissingArgument", looked2, demanded1)
        ELSE IF ~IsAddress(args["account"])
        THEN VerifyRet("fault", looked2, demanded1)
        ELSE IF args["account"] \notin auths
        THEN VerifyRet("fault", looked2, Append(demanded1, args["account"]))
        ELSE
        LET looked3 == Append(looked2, "client_domain_account")
            demanded2 == Append(demanded1, args["account"])
        IN  IF "client_domain_account" \notin DOMAIN args
            THEN VerifyRet("Ok", looked3, demanded2)
            ELSE IF ~IsAddress(args["client_domain_account"])
            THEN VerifyRet("fault", looked3, demanded2)
            ELSE IF args["client_domain_account"] \notin auths
            THEN VerifyRet("fault", looked3, Append(demanded2, args["client_domain_account"]))
            ELSE VerifyRet("Ok", looked3, Append(demanded2, args["client_domain_account"]))

web_auth_verify_mut_client_required(args, auths) ==
    IF "account" \notin DOMAIN args
    THEN VerifyRet("MissingArgument", <<"account">>, <<>>)
    ELSE IF ~IsAddress(args["account"])
    THEN VerifyRet("fault", <<"account">>, <<>>)
    ELSE IF args["account"] \notin auths
    THEN VerifyRet("fault", <<"account">>, <<args["account"]>>)
    ELSE
    LET looked2 == <<"account", "web_auth_domain_account">>
        demanded1 == <<args["account"]>>
    IN  IF "web_auth_domain_account" \notin DOMAIN args
        THEN VerifyRet("MissingArgument", looked2, demanded1)
        ELSE IF ~IsAddress(args["web_auth_domain_account"])
        THEN VerifyRet("fault", looked2, demanded1)
        ELSE IF args["web_auth_domain_account"] \notin auths
        THEN VerifyRet("fault", looked2, Append(demanded1, args["web_auth_domain_account"]))
        ELSE
        LET looked3 == Append(looked2, "client_domain_account")
            demanded2 == Append(demanded1, args["web_auth_domain_account"])
        IN  IF "client_domain_account" \notin DOMAIN args
            THEN VerifyRet("MissingArgument", looked3, demanded2)
            ELSE IF ~IsAddress(args["client_domain_account"])
            THEN VerifyRet("fault", looked3, demanded2)
            ELSE IF args["client_domain_account"] \notin auths
            THEN VerifyRet("fault", looked3, Append(demanded2, args["client_domain_account"]))
            ELSE VerifyRet("Ok", looked3, Append(demanded2, args["client_domain_account"]))

web_auth_verify_mut_lookups_first(args, auths) ==
    IF "account" \notin DOMAIN args
    THEN VerifyRet("MissingArgument", <<"account">>, <<>>)
    ELSE
    LET looked2 == <<"account", "web_auth_domain_account">>
    IN  IF "web_auth_domain_account" \notin DOMAIN args
        THEN VerifyRet("MissingArgument", looked2, <<>>)
        ELSE IF ~IsAddress(args["account"])
        THEN VerifyRet("fault", looked2, <<>>)
        ELSE IF args["account"] \notin auths
        THEN VerifyRet("fault", looked2, <<args["account"]>>)
        ELSE
        LET demanded1 == <<args["account"]>>
        IN  IF ~IsAddress(args["web_auth_domain_account"])
            THEN VerifyRet("fault", looked2, demanded1)
            ELSE IF args["web_auth_domain_account"] \notin auths
            THEN VerifyRet("fault", looked2, Append(demanded1, args["web_auth_domain_account"]))
            ELSE
            LET looked3 == Append(looked2, "client_domain_account")
                demanded2 == Append(demanded1, args["web_auth_domain_account"])
            IN  IF "client_domain_account" \notin DOMAIN args
                THEN VerifyRet("Ok", looked3, demanded2)
                ELSE IF ~IsAddress(args["client_domain_account"])
                THEN VerifyRet("fault", looked3, demanded2)
                ELSE IF args["client_domain_account"] \notin auths
                THEN VerifyRet("fault", looked3, Append(demanded2, args["client_domain_account"]))
                ELSE VerifyRet("Ok", looked3, Append(demanded2, args["client_domain_account"]))

web_auth_verify(args, auths) ==
    \* args.get("account")
    IF "account" \notin DOMAIN args
    THEN VerifyRet("MissingArgument", <<"account">>, <<>>)
    \* Address::from_string(&address)
    ELSE IF ~IsAddress(args["account"])
    THEN VerifyRet("fault", <<"account">>, <<>>)
    \* addr.require_auth()
    ELSE IF args["account"] \notin auths
    THEN VerifyRet("fault", <<"account">>, <<args["account"]>>)
    ELSE
    \* args.get("web_auth_domain_account")
    LET looked2 == <<"account", "web_auth_domain_account">>
        demanded1 == <<args["account"]>>
    IN  IF "web_auth_domain_account" \notin DOMAIN args
        THEN VerifyRet("MissingArgument", looked2, demanded1)
        ELSE IF ~IsAddress(args["web_auth_domain_account"])
        THEN VerifyRet("fault", looked2, demanded1)
        ELSE IF args["web_auth_domain_account"] \notin auths
        THEN VerifyRet("fault", looked2, Append(demanded1, args["web_auth_domain_account"]))
        ELSE
        \* args.get("client_domain_account")
        LET looked3 == Append(looked2, "client_domain_account")
            demanded2 == Append(demanded1, args["web_auth_domain_account"])
        IN  IF "client_domain_account" \notin DOMAIN args
            THEN VerifyRet("Ok", looked3, demanded2)
            ELSE IF ~IsAddress(args["client_domain_account"])
            THEN VerifyRet("fault", looked3, demanded2)
            ELSE IF args["client_domain_account"] \notin auths
            THEN VerifyRet("fault", looked3, Append(demanded2, args["client_domain_account"]))
            ELSE VerifyRet("Ok", looked3, Append(demanded2, args["client_domain_account"]))

\* ---------------------------------------------------------------- calls
AccountCalls ==
         [op : {"account_constructor"}, admin : Principals, signer : Keys]
    \cup [op : {"account_upgrade"}, new_wasm_hash : WasmHashes, auths : SUBSET Principals]
    \cup [op : {"check_auth"}, signature_payload : Digests, signatures : Bundles,
          auth_context : Contexts]

WebAuthCalls ==
         [op : {"web_auth_constructor"}, admin : Principals]
    \cup [op : {"web_auth_upgrade"}, new_wasm_hash : WasmHashes, auths : SUBSET Principals]
    \cup [op : {"web_auth_verify"}, args : ArgMaps, auths : SUBSET Principals]

\* ---------------------------------------------------------------- actions
Init ==
    /\ acc_admin = NoAdmin
    /\ acc_signers = {}
    /\ acc_wasm = InitialWasm
    /\ wa_admin = NoAdmin
    /\ wa_wasm = InitialWasm
    /\ pc = "idle"
    /\ call = NoCall
    /\ ret = NoRet

\* the host invokes a function of the account contract
InvokeAccount ==
    /\ pc = "idle"
    /\ \E c \in AccountCalls : call' = c
    /\ pc' = "invoked"
    /\ UNCHANGED <<acc_state, wa_state, ret>>

\* the host invokes a function of the web_auth contract
InvokeWebAuth ==
    /\ pc = "idle"
    /\ \E c \in WebAuthCalls : call' = c
    /\ pc' = "invoked"
    /\ UNCHANGED <<acc_state, wa_state, ret>>

\* the host hands the outcome to the caller
Return ==
    /\ pc = "done"
    /\ pc' = "idle"
    /\ call' = NoCall
    /\ ret' = NoRet
    /\ UNCHANGED <<acc_state, wa_state>>

\* Account::__constructor
AccountConstructor_mut_overwrite ==
    /\ pc = "invoked"
    /\ call.op = "account_constructor"
    /\ acc_admin' = call.admin
    /\ acc_signers' = {call.signer}
    /\ ret' = [result |-> "Ok"]
    /\ pc' = "done"
    /\ UNCHANGED <<acc_wasm, wa_state, call>>

AccountConstructor ==
    /\ pc = "invoked"
    /\ call.op = "account_constructor"
    /\ acc_admin' = call.admin
    /\ acc_signers' = acc_signers \cup {call.signer}
    /\ ret' = [result |-> "Ok"]
    /\ pc' = "done"
    /\ UNCHANGED <<acc_wasm, wa_state, call>>

\* Account::upgrade
AccountUpgrade ==
    /\ pc = "invoked"
    /\ call.op = "account_upgrade"
    /\ LET result == upgrade(acc_admin, call.auths)
       IN  /\ ret' = [result |-> result]
           /\ acc_wasm' = IF result = "Ok" THEN call.new_wasm_hash ELSE acc_wasm
    /\ pc' = "done"
    /\ UNCHANGED <<acc_admin, acc_signers, wa_state, call>>

\* Account::__check_auth
CheckAuth_mut_consume ==
    /\ pc = "invoked"
    /\ call.op = "check_auth"
    /\ LET r == check_auth(acc_signers, call.signature_payload, call.signatures,
                           call.auth_context)
       IN  /\ ret' = r
           /\ acc_signers' = IF r.result = "Ok"
                             THEN acc_signers \ {call.signatures[1].public_key}
                             ELSE acc_signers
    /\ pc' = "done"
    /\ UNCHANGED <<acc_admin, acc_wasm, wa_state, call>>

CheckAuth ==
    /\ pc = "invoked"
    /\ call.op = "check_auth"
    /\ ret' = check_auth(acc_signers, call.signature_payload, call.signatures,
                         call.auth_context)
    /\ pc' = "done"
    /\ UNCHANGED <<acc_state, wa_state, call>>

\* WebAuthContract::__constructor
WebAuthConstructor ==
    /\ pc = "invoked"
    /\ call.op = "web_auth_constructor"
    /\ wa_admin' = call.admin
    /\ ret' = [result |-> "Ok"]
    /\ pc' = "done"
    /\ UNCHANGED <<wa_wasm, acc_state, call>>

\* WebAuthContract::upgrade
WebAuthUpgrade ==
    /\ pc = "invoked"
    /\ call.op = "web_auth_upgrade"
    /\ LET result == upgrade(wa_admin, call.auths)
       IN  /\ ret' = [result |-> result]
           /\ wa_wasm' = IF result = "Ok" THEN call.new_wasm_hash ELSE wa_wasm
    /\ pc' = "done"
    /\ UNCHANGED <<wa_admin, acc_state, call>>

\* WebAuthContract::web_auth_verify
WebAuthVerify ==
    /\ pc = "invoked"
    /\ call.op = "web_auth_verify"
    /\ ret' = web_auth_verify(call.args, call.auths)
    /\ pc' = "done"
    /\ UNCHANGED <<acc_state, wa_state, call>>

Next ==
    \/ InvokeAccount
    \/ AccountConstructor
    \/ AccountUpgrade
    \/ CheckAuth
    \/ InvokeWebAuth
    \/ WebAuthConstructor
    \/ WebAuthUpgrade
    \/ WebAuthVerify
    \/ Return

Spec == Init /\ [][Next]_vars

\* ------------------------------------------------------------ properties
\* a check_auth call has run and its outcome is in ret
CheckAuthDone == pc = "done" /\ call.op = "check_auth"
\* a web_auth_verify call has run and its outcome is in ret
VerifyDone == pc = "done" /\ call.op = "web_auth_verify"

\* C1: check_auth accepts if and only if the bundle has exactly one element,
\* that element's public key is registered and its signature is the
\* signature of the payload under that key; one element with a registered
\* key and a signature that does not verify is a fault, never an accept and
\* never a typed error.
C1_AcceptIffRegisteredAndValid ==
    CheckAuthDone =>
        LET b == call.signatures
            one == Len(b) = 1
            registered == b[1].public_key \in acc_signers
            valid == b[1].signature = Sign(b[1].public_key, call.signature_payload)
        IN  /\ (ret.result = "Ok") <=> (one /\ registered /\ valid)
            /\ (one /\ registered /\ ~valid) => ret.result = "fault"

C1_Witness ==
    /\ CheckAuthDone
    /\ Len(call.signatures) = 1
    /\ call.signatures[1].public_key \in acc_signers
    /\ call.signatures[1].signature # Sign(call.signatures[1].public_key, call.signature_payload)
    /\ call.signatures[1].signature.by = call.signatures[1].public_key
    /\ ret.result = "fault"

\* C2: a bundle of two or more elements yields TooManySignatures, with no
\* registry lookup and no signature verification, whatever element 0 holds.
C2_TooManyBeforeLookup ==
    (CheckAuthDone /\ Len(call.signatures) >= 2) =>
        /\ ret.result = "TooManySignatures"
        /\ ret.looked = <<>>
        /\ ret.verified = <<>>

C2_Witness ==
    /\ CheckAuthDone
    /\ Len(call.signatures) >= 2
    /\ call.signatures[1].public_key \notin acc_signers
    /\ call.signatures[1].signature = Forged
    /\ ret.result = "TooManySignatures"

\* C3: a one-element bundle naming an unregistered key yields UnknownSigner
\* for every payload and signature, and ed25519_verify is not invoked.
C3_UnknownSignerBeforeVerify ==
    (CheckAuthDone /\ Len(call.signatures) = 1
        /\ call.signatures[1].public_key \notin acc_signers) =>
        /\ ret.result = "UnknownSigner"
        /\ ret.verified = <<>>

C3_Witness ==
    /\ CheckAuthDone
    /\ Len(call.signatures) = 1
    /\ acc_signers # {}
    /\ call.signatures[1].public_key \notin acc_signers
    /\ call.signatures[1].signature = Forged
    /\ ret.result = "UnknownSigner"

\* C4: check_auth with an empty bundle returns a typed error value, not a
\* fault (and not an accept).
C4_EmptyBundleTypedError ==
    (CheckAuthDone /\ Len(call.signatures) = 0) =>
        ret.result \in {"UnknownSigner", "TooManySignatures"}

\* C5: a contract's code changes only in an upgrade call for which the Admin
\* entry exists and that admin's authorization is held for the call; upgrade
\* without an Admin entry or without the admin's authorization faults; a
\* faulting call leaves code and storage unchanged.
C5_UpgradeGate ==
    /\ [][(acc_wasm' # acc_wasm) =>
            (pc = "invoked" /\ call.op = "account_upgrade"
                /\ acc_admin # NoAdmin /\ acc_admin \in call.auths
                /\ acc_wasm' = call.new_wasm_hash)]_vars
    /\ [][(wa_wasm' # wa_wasm) =>
            (pc = "invoked" /\ call.op = "web_auth_upgrade"
                /\ wa_admin # NoAdmin /\ wa_admin \in call.auths
                /\ wa_wasm' = call.new_wasm_hash)]_vars
    /\ []((pc = "done" /\ call.op = "account_upgrade"
            /\ (acc_admin = NoAdmin \/ acc_admin \notin call.auths)) => ret.result = "fault")
    /\ []((pc = "done" /\ call.op = "web_auth_upgrade"
            /\ (wa_admin = NoAdmin \/ wa_admin \notin call.auths)) => ret.result = "fault")
    /\ [][(ret'.result = "fault") => UNCHANGED <<acc_state, wa_state>>]_vars

C5_Witness ==
    /\ pc = "done"
    /\ call.op = "account_upgrade"
    /\ acc_admin # NoAdmin
    /\ acc_signers # {}
    /\ call.auths # {}
    /\ acc_admin \notin call.auths
    /\ call.new_wasm_hash # acc_wasm
    /\ ret.result = "fault"

\* C6: web_auth_verify on args without the key account returns
\* MissingArgument and calls require_auth on nobody, whatever the other
\* keys hold and whoever has authorized.
C6_MissingAccountFirst ==
    (VerifyDone /\ "account" \notin DOMAIN call.args) =>
        /\ ret.result = "MissingArgument"
        /\ ret.demanded = <<>>

C6_Witness ==
    /\ VerifyDone
    /\ DOMAIN call.args = {"web_auth_domain_account", "client_domain_account"}
    /\ call.args["web_auth_domain_account"] \in call.auths
    /\ call.args["client_domain_account"] \notin call.auths
    /\ ret.result = "MissingArgument"

\* C7: web_auth_verify succeeds if and only if account and
\* web_auth_domain_account are present and their principals authorize, and
\* client_domain_account is absent or its principal authorizes; when it is
\* absent, require_auth is called for the two required principals only.
C7_SuccessIff ==
    VerifyDone =>
        LET a == call.args
            granted(k) == k \in DOMAIN a /\ a[k] \in Principals /\ a[k] \in call.auths
            required == granted("account") /\ granted("web_auth_domain_account")
        IN  /\ (ret.result = "Ok") <=>
                    (required /\ ("client_domain_account" \notin DOMAIN a
                                    \/ granted("client_domain_account")))
            /\ (required /\ "client_domain_account" \notin DOMAIN a) =>
                    ret.demanded = <<a["account"], a["web_auth_domain_account"]>>

C7_Witness ==
    /\ VerifyDone
    /\ DOMAIN call.args = {"account", "web_auth_domain_account"}
    /\ call.args["account"] # call.args["web_auth_domain_account"]
    /\ ret.result = "Ok"

\* C8 as stated: after an initialize call the storage holds the admin and
\* the single signer entry of that call only.
C8_ReinitOverwrites ==
    (pc = "done" /\ call.op = "account_constructor") =>
        /\ acc_admin = call.admin
        /\ acc_signers = {call.signer}

\* C8 amended: initialize overwrites the admin and adds its signer entry to
\* the entries already stored; no entry is ever removed.
C8_ReinitAddsSigner ==
    /\ []((pc = "done" /\ call.op = "account_constructor") =>
            (acc_admin = call.admin /\ call.signer \in acc_signers))
    /\ [][(pc = "invoked" /\ call.op = "account_constructor") =>
            acc_signers' = acc_signers \cup {call.signer}]_vars
    /\ [][acc_signers \subseteq acc_signers']_vars

C8_Witness ==
    /\ pc = "done"
    /\ call.op = "account_constructor"
    /\ acc_admin = call.admin
    /\ Cardinality(acc_signers) = 2

\* C9: check_auth writes nothing, and once it has returned, the same
\* payload and bundle with any auth_context yield the same outcome.
C9_ReadOnlyDeterministic ==
    /\ [][(pc = "invoked" /\ call.op = "check_auth") => UNCHANGED acc_state]_vars
    /\ [](CheckAuthDone =>
            \A ctx \in Contexts :
                check_auth(acc_signers, call.signature_payload, call.signatures, ctx).result
                    = ret.result)

C9_Witness ==
    /\ CheckAuthDone
    /\ call.auth_context # <<>>
    /\ acc_admin # NoAdmin
    /\ ret.result = "Ok"

\* C10: web_auth_verify looks its keys up in the order account,
\* web_auth_domain_account, client_domain_account, and a key is looked up
\* only after require_auth passed for every earlier key; with account
\* present and web_auth_domain_account absent, MissingArgument is returned
\* only after account's principal has authorized, and the call faults when
\* that principal has not.
C10_SequentialOrder ==
    VerifyDone =>
        LET a == call.args
            order == <<"account", "web_auth_domain_account", "client_domain_account">>
        IN  /\ Len(ret.looked) \in 1..3
            /\ \A i \in 1..Len(ret.looked) : ret.looked[i] = order[i]
            /\ \A i \in 2..Len(ret.looked) :
                    /\ Len(ret.demanded) >= i - 1
                    /\ \A j \in 1..(i - 1) :
                            /\ ret.demanded[j] = a[order[j]]
                            /\ ret.demanded[j] \in call.auths
            /\ ("account" \in DOMAIN a /\ "web_auth_domain_account" \notin DOMAIN a) =>
                    /\ (ret.result = "MissingArgument") <=>
                            (a["account"] \in Principals /\ a["account"] \in call.auths)
                    /\ (ret.result = "MissingArgument") => ret.demanded = <<a["account"]>>
                    /\ (a["account"] \in Principals /\ a["account"] \notin call.auths) =>
                            /\ ret.result = "fault"
                            /\ ret.demanded = <<a["account"]>>
                            /\ ret.looked = <<"account">>

C10_Witness ==
    /\ VerifyDone
    /\ DOMAIN call.args = {"account", "client_domain_account"}
    /\ call.args["account"] \in Principals
    /\ call.args["account"] \notin call.auths
    /\ call.auths # {}
    /\ ret.result = "fault"
====
